---- MODULE Spec2Model ----
(***************************************************************************)
(* Feierabend calculator: the balance calculator                           *)
(* (FlexibleTimeCalculator.calculateTime and the handlers that call it)    *)
(* and the countdown state machine (CountdownManager).                     *)
(*                                                                         *)
(* Instants (JavaScript Date values) are integers in milliseconds counted  *)
(* from local midnight of the day the page was opened.  Quantities the     *)
(* code holds in hours (targetHours, workingHours, balances) are held in   *)
(* milliseconds too, so that a fractional number of hours is exact; the    *)
(* break duration is in minutes as in the code.                            *)
(***************************************************************************)
EXTENDS Integers, Sequences, FiniteSets, TLC

MsPerSecond == 1000
MsPerMinute == 60 * 1000
MsPerHour == 1000 * 60 * 60
MsPerDay == 24 * MsPerHour

Abs(x) == IF x < 0 THEN -x ELSE x
Min(a, b) == IF a <= b THEN a ELSE b
Max(a, b) == IF a >= b THEN a ELSE b

(***************************************************************************)
(* Strings.  A field value or a displayed text is a record: k tells which  *)
(* kind of text it is, the numbers are the ones written in it.             *)
(*   "empty"  the empty string                                             *)
(*   "text"   a string that holds no number ("abc")                        *)
(*   "hm"     H:M, hours h and minutes m (as typed or as formatted)        *)
(*   "dashes" the marker '--:--'                                           *)
(*   "dur"    a formatted duration, sign neg, h hours, m minutes           *)
(***************************************************************************)
Str(k, neg, h, m) == [k |-> k, neg |-> neg, h |-> h, m |-> m]
EmptyStr == Str("empty", FALSE, 0, 0)
TextStr == Str("text", FALSE, 0, 0)
Unavailable == Str("dashes", FALSE, 0, 0)
HM(h, m) == Str("hm", FALSE, h, m)
Clock(minuteOfDay) == HM(minuteOfDay \div 60, minuteOfDay % 60)

\* A number typed into the overtime balance field, v in milliseconds of hours.
NumStr(v) == [k |-> "num", v |-> v]
EmptyNum == [k |-> "empty", v |-> 0]
TextNum == [k |-> "text", v |-> 0]

\* parseFloat(value) || 0
ParseBalance(s) == IF s.k = "num" THEN s.v ELSE 0

\* parseTime's results: null, or a Date
Null == <<>>
Date(t) == <<t>>

DayStart(now) == now - (now % MsPerDay)

\* parseTime(timeString), evaluated at the instant now
parseTime(timeString, now) ==
    IF timeString.k # "hm"
    THEN Null
    ELSE Date(DayStart(now) + timeString.h * MsPerHour + timeString.m * MsPerMinute)

\* formatTime(date): the clock face of an instant, seconds dropped
formatTime(date) ==
    HM((date % MsPerDay) \div MsPerHour, ((date % MsPerDay) % MsPerHour) \div MsPerMinute)

\* as formatHours, the magnitude cut to whole minutes
formatHours_Truncated(hours) ==
    LET totalMinutes == Abs(hours) \div MsPerMinute
    IN  Str("dur", hours < 0, totalMinutes \div 60, totalMinutes % 60)

\* formatHours(hours): sign, then the magnitude rounded to whole minutes
formatHours(hours) ==
    LET totalMinutes == (Abs(hours) + (MsPerMinute \div 2)) \div MsPerMinute
    IN  Str("dur", hours < 0, totalMinutes \div 60, totalMinutes % 60)

(***************************************************************************)
(* The balance calculator, src/unnamed/part_000                            *)
(***************************************************************************)

\* ConfigManager.defaultConfig: 8 hours, 30 minutes, theme 'system',
\* language 'en'
DefaultTargetHours == 8
DefaultBreakDuration == 30
defaultConfig ==
    [targetHours |-> DefaultTargetHours * MsPerHour, breakDuration |-> DefaultBreakDuration,
     theme |-> "system", language |-> "en"]

\* the theme and language controls of the configuration dialog, with
\* ThemeManager.currentTheme and TranslationManager.currentLanguage
\* loadConfiguration(): the hidden inputs and the active buttons are set
\* from the ThemeManager's theme and from config.language || 'de'
loadConfiguration(sel, config) ==
    LET language == IF config.language # "" THEN config.language ELSE "de"
    IN  [sel EXCEPT !.themeHiddenInput = sel.currentTheme,
                    !.activeThemeButton = sel.currentTheme,
                    !.languageHiddenInput = language,
                    !.activeLanguageButton = language]

\* resetConfiguration(), lines 602-611: theme 'system', the language
\* selector and button 'de', then loadConfiguration() on the reset config
resetSelectors(sel, config) ==
    loadConfiguration(
        [sel EXCEPT !.currentTheme = "system",
                    !.languageHiddenInput = "de",
                    !.activeThemeButton = "system",
                    !.activeLanguageButton = "de"],
        config)

\* the constructor and initializeApp() with nothing saved: the language of
\* the default configuration, the theme 'system'
initialSelectors ==
    loadConfiguration(
        [themeHiddenInput |-> "", activeThemeButton |-> "", currentTheme |-> "system",
         languageHiddenInput |-> "", activeLanguageButton |-> defaultConfig.language,
         currentLanguage |-> defaultConfig.language],
        defaultConfig)

\* a page without configuration dialog
NoSelectors ==
    [themeHiddenInput |-> "", activeThemeButton |-> "", currentTheme |-> "system",
     languageHiddenInput |-> "", activeLanguageButton |-> "", currentLanguage |-> "en"]

\* the hours from which a break is mandatory
BreakThresholdHours == 6

\* calculateTime's first block: the break added to the suggestion
suggestionBreakDuration(config, forceBreak) ==
    IF config.targetHours >= config.breakDuration * MsPerMinute
    THEN IF config.targetHours >= BreakThresholdHours * MsPerHour
         THEN config.breakDuration
         ELSE IF forceBreak THEN config.breakDuration ELSE 0
    ELSE 0

\* as getEffectiveBreakDuration, the checkbox not read
getEffectiveBreakDuration_NoCheckbox(config, forceBreak) ==
    IF config.targetHours >= config.breakDuration * MsPerMinute
    THEN IF config.targetHours >= BreakThresholdHours * MsPerHour
         THEN config.breakDuration
         ELSE 0
    ELSE 0

\* getEffectiveBreakDuration(config)
getEffectiveBreakDuration(config, forceBreak) ==
    IF config.targetHours >= config.breakDuration * MsPerMinute
    THEN IF config.targetHours >= BreakThresholdHours * MsPerHour
         THEN config.breakDuration
         ELSE IF forceBreak THEN config.breakDuration ELSE 0
    ELSE 0

\* the class added to a balance figure
Polarity(value) ==
    IF value > 0 THEN "positive" ELSE IF value < 0 THEN "negative" ELSE ""

\* as updateResults, the polarity class of the balance item toggled
updateResults_Toggle(v, results) ==
    [v EXCEPT !.workingHoursDisplay = formatHours(results.workingHours),
              !.targetDisplay = formatHours(results.targetHours),
              !.timeBalanceDisplay = formatHours(results.todayBalance),
              !.timeBalanceClass = Polarity(results.todayBalance),
              !.balanceItemClass =
                  IF v.balanceItemClass = Polarity(results.todayBalance)
                  THEN ""
                  ELSE Polarity(results.todayBalance),
              !.totalOvertimeDisplay = formatHours(results.newTotalBalance),
              !.totalOvertimeClass = Polarity(results.newTotalBalance),
              !.overtimeItemClass = Polarity(results.newTotalBalance),
              !.suggestedEndTimeDisplay = formatTime(results.suggestedEndTime)]

\* updateResults(results): every figure, the polarity of the two balances on
\* the value element and on its enclosing item
updateResults(v, results) ==
    [v EXCEPT !.workingHoursDisplay = formatHours(results.workingHours),
              !.targetDisplay = formatHours(results.targetHours),
              !.timeBalanceDisplay = formatHours(results.todayBalance),
              !.timeBalanceClass = Polarity(results.todayBalance),
              !.balanceItemClass = Polarity(results.todayBalance),
              !.totalOvertimeDisplay = formatHours(results.newTotalBalance),
              !.totalOvertimeClass = Polarity(results.newTotalBalance),
              !.overtimeItemClass = Polarity(results.newTotalBalance),
              !.suggestedEndTimeDisplay = formatTime(results.suggestedEndTime)]

\* as clearPartialResults, the total balance left as it was
clearPartialResults_KeepTotal(v) ==
    [v EXCEPT !.workingHoursDisplay = Unavailable,
              !.timeBalanceDisplay = Unavailable,
              !.timeBalanceClass = "",
              !.totalOvertimeClass = ""]

\* clearPartialResults(): the three figures that need both times; the class
\* of the two value elements is reset, the class of the items is not touched
clearPartialResults(v) ==
    [v EXCEPT !.workingHoursDisplay = Unavailable,
              !.timeBalanceDisplay = Unavailable,
              !.totalOvertimeDisplay = Unavailable,
              !.timeBalanceClass = "",
              !.totalOvertimeClass = ""]

\* what one run of calculateTime computed, when it did not get that far
NoResults ==
    [workingHours |-> 0, targetHours |-> 0, todayBalance |-> 0,
     newTotalBalance |-> 0, suggestedEndTime |-> 0]
NoCalc ==
    [path |-> "none", currentTime |-> 0, firstSuggestion |-> Null,
     start |-> Null, end |-> Null,
     totalMinutes |-> 0, applyBreak |-> FALSE, effectiveBreakDuration |-> 0,
     workingMinutes |-> 0, results |-> NoResults]

\* calculateTime, lines 788-831: the target and the suggested end time
calculateSuggestion(v, startTime, config, forceBreak, now) ==
    LET v1 == [v EXCEPT !.targetDisplay = formatHours(config.targetHours)]
        start == parseTime(startTime, now)
        breakDuration == suggestionBreakDuration(config, forceBreak)
        suggestedEndTime ==
            start[1] + config.targetHours + breakDuration * MsPerMinute
    IN  IF startTime.k # "empty"
        THEN IF start # Null
             THEN [view |-> [v1 EXCEPT
                        !.suggestedEndTimeDisplay = formatTime(suggestedEndTime),
                        !.breakOptionHidden =
                            ~(config.targetHours < BreakThresholdHours * MsPerHour)],
                   firstSuggestion |-> Date(suggestedEndTime)]
             ELSE [view |-> [v1 EXCEPT !.suggestedEndTimeDisplay = Unavailable],
                   firstSuggestion |-> Null]
        ELSE [view |-> [v1 EXCEPT !.suggestedEndTimeDisplay = Unavailable,
                                  !.breakOptionHidden = TRUE],
              firstSuggestion |-> Null]

\* as isFutureEstimate, the comparison with the current time turned round
isFutureEstimate_Past(start, end, currentTime) ==
    LET startIsInFuture == start < currentTime
    IN  startIsInFuture /\ start = end

\* calculateTime, lines 849-854: the start lies in the future and the end is
\* the same instant
isFutureEstimate(start, end, currentTime) ==
    LET startIsInFuture == start > currentTime
    IN  startIsInFuture /\ start = end

\* as calculateFuture, the target added to the prior balance
calculateFuture_Added(v, c, start, config, forceBreak, currentOvertimeBalance) ==
    LET suggestedEndTime ==
            start + config.targetHours
                  + getEffectiveBreakDuration(config, forceBreak) * MsPerMinute
        results == [workingHours |-> 0,
                    targetHours |-> config.targetHours,
                    todayBalance |-> -config.targetHours,
                    newTotalBalance |-> currentOvertimeBalance + config.targetHours,
                    suggestedEndTime |-> suggestedEndTime]
    IN  [view |-> updateResults(v, results),
         calc |-> [c EXCEPT !.path = "future", !.results = results]]

\* calculateTime, lines 855-867: nothing worked yet, the full target missing
calculateFuture(v, c, start, config, forceBreak, currentOvertimeBalance) ==
    LET suggestedEndTime ==
            start + config.targetHours
                  + getEffectiveBreakDuration(config, forceBreak) * MsPerMinute
        results == [workingHours |-> 0,
                    targetHours |-> config.targetHours,
                    todayBalance |-> -config.targetHours,
                    newTotalBalance |-> currentOvertimeBalance - config.targetHours,
                    suggestedEndTime |-> suggestedEndTime]
    IN  [view |-> updateResults(v, results),
         calc |-> [c EXCEPT !.path = "future", !.results = results]]

\* as overnightEnd, only an end before the start moved to the next day
overnightEnd_Before(start, end) ==
    IF end < start THEN end + MsPerDay ELSE end

\* calculateTime, lines 873-876: an end at or before the start is on the next day
overnightEnd(start, end) ==
    IF end <= start THEN end + MsPerDay ELSE end

\* as applyBreakFor, the break mandatory only above 6 hours
applyBreakFor_Above(totalMinutes, forceBreak) ==
    IF totalMinutes <= BreakThresholdHours * 60 THEN forceBreak ELSE TRUE

\* calculateTime, lines 881-894: below 6 hours the break is the user's choice
applyBreakFor(totalMinutes, forceBreak) ==
    IF totalMinutes < BreakThresholdHours * 60 THEN forceBreak ELSE TRUE

\* as effectiveBreakFor, the break not capped at the time worked
effectiveBreakFor_Uncapped(applyBreak, totalMinutes, breakDuration) ==
    IF applyBreak THEN breakDuration ELSE 0

\* calculateTime, lines 898-904: never more break than time worked
effectiveBreakFor(applyBreak, totalMinutes, breakDuration) ==
    IF applyBreak THEN Min(totalMinutes, breakDuration) ELSE 0

\* calculateTime, lines 873-938: elapsed time, break, balances, suggestion
calculateWorked(v, c, start, parsedEnd, config, forceBreak, currentOvertimeBalance) ==
    LET end == overnightEnd(start, parsedEnd)
        totalMinutes == (end - start) \div MsPerMinute
        applyBreak == applyBreakFor(totalMinutes, forceBreak)
        effectiveBreakDuration ==
            effectiveBreakFor(applyBreak, totalMinutes, config.breakDuration)
        subtracted ==
            IF applyBreak /\ effectiveBreakDuration > 0
            THEN totalMinutes - effectiveBreakDuration
            ELSE totalMinutes
        workingMinutes == Max(0, subtracted)
        workingHours == workingMinutes * MsPerMinute
        targetHours == config.targetHours
        todayBalance == workingHours - targetHours
        newTotalBalance == currentOvertimeBalance + todayBalance
        breakDuration == getEffectiveBreakDuration(config, forceBreak)
        suggestedEndTime == start + targetHours + breakDuration * MsPerMinute
        results == [workingHours |-> workingHours,
                    targetHours |-> targetHours,
                    todayBalance |-> todayBalance,
                    newTotalBalance |-> newTotalBalance,
                    suggestedEndTime |-> suggestedEndTime]
    IN  [view |-> updateResults(
                     [v EXCEPT !.breakOptionHidden =
                                   ~(totalMinutes < BreakThresholdHours * 60)],
                     results),
         calc |-> [c EXCEPT !.path = "worked", !.end = Date(end),
                            !.totalMinutes = totalMinutes,
                            !.applyBreak = applyBreak,
                            !.effectiveBreakDuration = effectiveBreakDuration,
                            !.workingMinutes = workingMinutes,
                            !.results = results]]

\* calculateTime(): the new view and what the run computed
calculateTime(v, startTime, endTime, overtimeBalance, config, forceBreak, now) ==
    LET currentOvertimeBalance == ParseBalance(overtimeBalance)
        first == calculateSuggestion(v, startTime, config, forceBreak, now)
        start == parseTime(startTime, now)
        end == parseTime(endTime, now)
        currentTime == now
        c == [NoCalc EXCEPT !.currentTime = currentTime,
                            !.firstSuggestion = first.firstSuggestion,
                            !.start = start, !.end = end]
    IN  IF startTime.k = "empty" \/ endTime.k = "empty"
        THEN [view |-> clearPartialResults(first.view),
              calc |-> [c EXCEPT !.path = "missing"]]
        ELSE IF start = Null \/ end = Null
        THEN [view |-> clearPartialResults(first.view),
              calc |-> [c EXCEPT !.path = "unparseable"]]
        ELSE IF isFutureEstimate(start[1], end[1], currentTime)
        THEN calculateFuture(first.view, c, start[1], config, forceBreak,
                             currentOvertimeBalance)
        ELSE calculateWorked(first.view, c, start[1], end[1], config, forceBreak,
                             currentOvertimeBalance)

\* setCurrentTimeAsEndTime(): the value written to the end time field
setCurrentTimeAsEndTime(startTime, config, forceBreak, now) ==
    LET start == parseTime(startTime, now)
    IN  IF startTime.k # "empty" /\ start # Null /\ start[1] > now
        THEN formatTime(start[1] + config.targetHours
                 + getEffectiveBreakDuration(config, forceBreak) * MsPerMinute)
        ELSE formatTime(now)

(***************************************************************************)
(* The countdown, src/src/countdown/countdown.js                           *)
(***************************************************************************)
\* a Date that holds no time (new Date(NaN))
InvalidDate == <<0, 0>>
IsDate(d) == Len(d) = 1

\* the text of #countdown-display: nothing yet, [+]HH:MM:SS, or the text
\* that formatting NaN gives
NoDisplay == [k |-> "none", plus |-> FALSE, h |-> 0, m |-> 0, s |-> 0]
NaNDisplay(plus) == [k |-> "nan", plus |-> plus, h |-> 0, m |-> 0, s |-> 0]

\* CountdownManager.formatTime(hours, minutes, seconds, isOvertime)
formatCountdown(hours, minutes, seconds, isOvertime) ==
    [k |-> "hms", plus |-> isOvertime, h |-> hours, m |-> minutes, s |-> seconds]

\* as displayOf, the seconds rounded instead of cut
displayOf_Rounded(diffMs, isOvertime) ==
    formatCountdown(diffMs \div (1000 * 60 * 60),
                    (diffMs % (1000 * 60 * 60)) \div (1000 * 60),
                    ((diffMs % (1000 * 60)) + 500) \div 1000,
                    isOvertime)

\* the three Math.floor lines of updateCountdown, for diffMs >= 0
displayOf(diffMs, isOvertime) ==
    formatCountdown(diffMs \div (1000 * 60 * 60),
                    (diffMs % (1000 * 60 * 60)) \div (1000 * 60),
                    (diffMs % (1000 * 60)) \div 1000,
                    isOvertime)

\* the fields after the constructor's assignments, lines 19-23
constructed ==
    [targetTime |-> Null, intervalId |-> 0, isOvertime |-> FALSE,
     overtimeStartTime |-> Null, countdownDisplay |-> NoDisplay,
     countdownClass |-> "", notifications |-> 0]

\* no countdown page is open
NoCountdown == [constructed EXCEPT !.countdownClass = "absent"]

\* the minutes setTargetTime reads from timeValue: <<>> is NaN
minutesOf(timeValue) ==
    IF timeValue.k = "hm" THEN <<timeValue.h * 60 + timeValue.m>>
    ELSE IF timeValue.k = "min" THEN <<timeValue.m>>
    ELSE <<>>

\* setTargetTime(timeValue, isNegative), run at the instant t
setTargetTime(c, timeValue, isNegative, t) ==
    IF isNegative
    THEN [c EXCEPT !.isOvertime = TRUE,
                   !.overtimeStartTime = Date(t),
                   !.targetTime =
                       IF minutesOf(timeValue) = <<>>
                       THEN InvalidDate
                       ELSE Date(t - minutesOf(timeValue)[1] * 60 * 1000)]
    ELSE IF timeValue.k = "hm"
    THEN LET targetDate ==
                 DayStart(t) + timeValue.h * MsPerHour + timeValue.m * MsPerMinute
         IN  IF targetDate < t
             THEN [c EXCEPT !.isOvertime = TRUE,
                            !.overtimeStartTime = Date(t - (t - targetDate)),
                            !.targetTime = Date(targetDate)]
             ELSE [c EXCEPT !.targetTime = Date(targetDate)]
    ELSE IF timeValue.k = "min"
    THEN [c EXCEPT !.targetTime = Date(t + timeValue.m * 60 * 1000)]
    ELSE [c EXCEPT !.targetTime = InvalidDate]

\* the severity class of the remaining time, lines 365-382
FifteenMinutes == 15 * 60 * 1000
ThirtyMinutes == 30 * 60 * 1000

\* as severityClass, 30 minutes left already a warning
severityClass_Inclusive(diffMs) ==
    IF diffMs < FifteenMinutes THEN "danger"
    ELSE IF diffMs <= ThirtyMinutes THEN "warning"
    ELSE "regular"

severityClass(diffMs) ==
    IF diffMs < FifteenMinutes THEN "danger"
    ELSE IF diffMs < ThirtyMinutes THEN "warning"
    ELSE "regular"

\* as updateOvertime, the overtime counted from the instant of the update
updateOvertime_Restart(c, t) ==
    [c EXCEPT !.overtimeStartTime = Date(t),
              !.countdownDisplay = displayOf(0, TRUE),
              !.countdownClass = "overtime"]

\* as updateOvertime, the overtime counted from the target time
updateOvertime_FromTarget(c, t) ==
    IF IsDate(c.targetTime)
    THEN [c EXCEPT !.countdownDisplay = displayOf(t - c.targetTime[1], TRUE),
                   !.countdownClass = "overtime"]
    ELSE [c EXCEPT !.countdownDisplay = NaNDisplay(TRUE),
                   !.countdownClass = "overtime"]

\* updateCountdown() in overtime mode, lines 304-331
updateOvertime(c, t) ==
    LET overtimeStart ==
            IF c.overtimeStartTime # Null THEN c.overtimeStartTime ELSE c.targetTime
    IN  IF IsDate(overtimeStart)
        THEN [c EXCEPT !.countdownDisplay = displayOf(t - overtimeStart[1], TRUE),
                       !.countdownClass = "overtime"]
        ELSE [c EXCEPT !.countdownDisplay = NaNDisplay(TRUE),
                       !.countdownClass = "overtime"]

\* showEndOfWorkNotification()
showEndOfWorkNotification(c) ==
    [c EXCEPT !.notifications = c.notifications + 1]

\* as crossIntoOvertime, the overtime counted from the target time
crossIntoOvertime_AtTarget(c, t) ==
    updateOvertime(
        showEndOfWorkNotification(
            [c EXCEPT !.isOvertime = TRUE, !.overtimeStartTime = c.targetTime]),
        t)

\* as crossIntoOvertime, the target moved to the instant of the crossing
crossIntoOvertime_MoveTarget(c, t) ==
    updateOvertime(
        showEndOfWorkNotification(
            [c EXCEPT !.isOvertime = TRUE, !.overtimeStartTime = Date(t),
                      !.targetTime = Date(t)]),
        t)

\* as crossIntoOvertime, the overtime flag not set
crossIntoOvertime_NoFlag(c, t) ==
    updateOvertime(
        showEndOfWorkNotification([c EXCEPT !.overtimeStartTime = Date(t)]), t)

\* updateCountdown(), lines 344-355: the countdown has run out
crossIntoOvertime(c, t) ==
    updateOvertime(
        showEndOfWorkNotification(
            [c EXCEPT !.isOvertime = TRUE, !.overtimeStartTime = Date(t)]),
        t)

\* updateCountdown(), run at the instant t
updateCountdown(c, t) ==
    IF c.isOvertime
    THEN updateOvertime(c, t)
    ELSE IF ~IsDate(c.targetTime)
    THEN [c EXCEPT !.countdownDisplay = NaNDisplay(FALSE),
                   !.countdownClass = "regular"]
    ELSE LET diffMs == c.targetTime[1] - t
         IN  IF diffMs <= 0
             THEN crossIntoOvertime(c, t)
             ELSE [c EXCEPT !.countdownDisplay = displayOf(diffMs, FALSE),
                            !.countdownClass = severityClass(diffMs)]

\* the handle setInterval returns on a page that has set no interval before
FirstHandle == 1

\* startCountdown(): one update at once, then the interval
startCountdown(c, t) ==
    [updateCountdown(c, t) EXCEPT !.intervalId = FirstHandle]

\* the intervals after startCountdown(): the one whose handle intervalId
\* holds is cleared, a new one is set
startCountdownIntervals(c, running) ==
    (IF c.intervalId # 0 THEN running \ {c.intervalId} ELSE running)
        \cup {FirstHandle}

(***************************************************************************)
(* State                                                                   *)
(***************************************************************************)
VARIABLES
    now,                  \* the clock, new Date()
    startTimeInput,       \* value of #start-time
    endTimeInput,         \* value of #end-time
    overtimeBalanceInput, \* value of #overtime-balance
    forceBreakCheckbox,   \* #force-break is checked
    manualInput,          \* #end-time carries data-manual-input = 'true'
    config,               \* ConfigManager.config
    view,                 \* the result elements and the break option container
    calc,                 \* what the last run of calculateTime computed
    countdown,            \* the fields of the CountdownManager and its display
    armed,                \* how setTargetTime left the countdown
    intervals,            \* the handles of the intervals running on the page
    selectors             \* theme and language: selector, button, manager

calcVars ==
    <<startTimeInput, endTimeInput, overtimeBalanceInput, forceBreakCheckbox,
      manualInput, view, calc>>

vars == <<now, config, calcVars, countdown, armed, intervals, selectors>>

(***************************************************************************)
(* Inputs of the model                                                     *)
(***************************************************************************)
\* minutes of the day typed into the two time fields
StartMinutes == {480, 1320}
EndMinutes == {360, 500, 840, 1320}
StartChoices == {EmptyStr, TextStr} \cup {Clock(t) : t \in StartMinutes}
EndChoices == {EmptyStr, TextStr} \cup {Clock(t) : t \in EndMinutes}

\* prior balances typed into the balance field: nothing, no number, -2 h
BalanceChoices == {EmptyNum, TextNum, NumStr(-2 * MsPerHour)}

\* the instants at which the handlers run: 07:00:00 and 22:00:30
ClockInstants == {7 * MsPerHour, 22 * MsPerHour + 30 * MsPerSecond}

\* the configuration form: a radio button with its value, or the custom
\* radio button with the content of the custom field
Radio(v) == [custom |-> FALSE, k |-> "num", v |-> v]
Custom(k, v) == [custom |-> TRUE, k |-> k, v |-> v]
TargetChoices ==
    {Radio(4 * MsPerHour), Radio(8 * MsPerHour),
     Custom("num", 6 * MsPerHour), Custom("num", 0)}
BreakChoices ==
    {Radio(0), Radio(30), Custom("num", 400), Custom("text", 0)}

(***************************************************************************)
(* Operations of the calculator                                            *)
(***************************************************************************)
\* the state the page has before the first calculateTime
InitialView ==
    [targetDisplay |-> Unavailable, suggestedEndTimeDisplay |-> Unavailable,
     breakOptionHidden |-> TRUE, workingHoursDisplay |-> Unavailable,
     timeBalanceDisplay |-> Unavailable, totalOvertimeDisplay |-> Unavailable,
     timeBalanceClass |-> "", balanceItemClass |-> "",
     totalOvertimeClass |-> "", overtimeItemClass |-> ""]

\* handleInputChange(): calculateTime on the fields as they will be
Recalculate(startTime, endTime, overtimeBalance, cfg, forceBreak) ==
    \E r \in {calculateTime(view, startTime, endTime, overtimeBalance, cfg,
                           forceBreak, now)} :
        /\ view' = r.view
        /\ calc' = r.calc

\* the constructor and initializeApp: default configuration, the current
\* time as end time, a first calculation
InitCalculator ==
    /\ now \in ClockInstants
    /\ startTimeInput = EmptyStr
    /\ endTimeInput = setCurrentTimeAsEndTime(EmptyStr, defaultConfig, FALSE, now)
    /\ overtimeBalanceInput = EmptyNum
    /\ forceBreakCheckbox = FALSE
    /\ manualInput = FALSE
    /\ config = defaultConfig
    /\ \E r \in {calculateTime(InitialView, startTimeInput, endTimeInput,
                                overtimeBalanceInput, config, forceBreakCheckbox, now)} :
           /\ view = r.view
           /\ calc = r.calc

\* the 'input' listener of #start-time
StartTimeInput(value) ==
    LET newEnd == IF manualInput
                  THEN endTimeInput
                  ELSE setCurrentTimeAsEndTime(value, config, forceBreakCheckbox, now)
    IN  /\ startTimeInput' = value
        /\ endTimeInput' = newEnd
        /\ Recalculate(value, newEnd, overtimeBalanceInput, config, forceBreakCheckbox)
        /\ UNCHANGED <<now, overtimeBalanceInput, forceBreakCheckbox, manualInput, config,
                       countdown, armed, intervals, selectors>>

\* the 'input' listener of #end-time
EndTimeInput(value) ==
    /\ endTimeInput' = value
    /\ manualInput' = TRUE
    /\ Recalculate(startTimeInput, value, overtimeBalanceInput, config, forceBreakCheckbox)
    /\ UNCHANGED <<now, startTimeInput, overtimeBalanceInput, forceBreakCheckbox, config,
                   countdown, armed, intervals, selectors>>

\* the user types the displayed suggestion into #end-time
EndTimeInputSuggestion ==
    /\ view.suggestedEndTimeDisplay.k = "hm"
    /\ EndTimeInput(view.suggestedEndTimeDisplay)

\* the 'input' listener of #overtime-balance
OvertimeBalanceInput(value) ==
    /\ overtimeBalanceInput' = value
    /\ Recalculate(startTimeInput, endTimeInput, value, config, forceBreakCheckbox)
    /\ UNCHANGED <<now, startTimeInput, endTimeInput, forceBreakCheckbox, manualInput,
                   config, countdown, armed, intervals, selectors>>

\* the 'change' listener of #force-break
ForceBreakChange ==
    /\ forceBreakCheckbox' = ~forceBreakCheckbox
    /\ Recalculate(startTimeInput, endTimeInput, overtimeBalanceInput, config,
                   ~forceBreakCheckbox)
    /\ UNCHANGED <<now, startTimeInput, endTimeInput, overtimeBalanceInput, manualInput,
                   config, countdown, armed, intervals, selectors>>

\* saveCurrentConfig(): the checked radio buttons, a custom value that is no
\* valid number replaced by 8 hours or 30 minutes
\* as savedTargetHours, a custom value of zero hours accepted
savedTargetHours_NonNegative(choice) ==
    IF choice.custom
    THEN IF choice.k = "num" /\ choice.v >= 0
         THEN choice.v
         ELSE DefaultTargetHours * MsPerHour
    ELSE choice.v
savedTargetHours(choice) ==
    IF choice.custom
    THEN IF choice.k = "num" /\ choice.v > 0
         THEN choice.v
         ELSE DefaultTargetHours * MsPerHour
    ELSE choice.v
\* parseInt() on the custom break field: a whole number as typed, a decimal
\* (kind "frac", v in tenths of a minute) cut off at the point, NaN for text
parseInt(field) ==
    IF field.k = "num" THEN <<field.v>>
    ELSE IF field.k = "frac"
         THEN <<IF field.v >= 0 THEN field.v \div 10 ELSE -((-field.v) \div 10)>>
         ELSE <<>>
savedBreakDuration(choice) ==
    IF choice.custom
    THEN LET customBreak == parseInt(choice)
         IN  IF customBreak # <<>> /\ customBreak[1] >= 0
             THEN customBreak[1]
             ELSE DefaultBreakDuration
    ELSE choice.v
SaveCurrentConfig(targetChoice, breakChoice) ==
    LET newConfig == [config EXCEPT !.targetHours = savedTargetHours(targetChoice),
                                    !.breakDuration = savedBreakDuration(breakChoice)]
    IN  /\ config' = newConfig
        /\ Recalculate(startTimeInput, endTimeInput, overtimeBalanceInput, newConfig,
                       forceBreakCheckbox)
        /\ UNCHANGED <<now, startTimeInput, endTimeInput, overtimeBalanceInput,
                       forceBreakCheckbox, manualInput, countdown, armed, intervals, selectors>>

\* resetConfiguration(): the default configuration, then calculateTime
ResetConfiguration ==
    /\ config' = defaultConfig
    /\ selectors' = resetSelectors(selectors, defaultConfig)
    /\ Recalculate(startTimeInput, endTimeInput, overtimeBalanceInput, defaultConfig,
                   forceBreakCheckbox)
    /\ UNCHANGED <<now, startTimeInput, endTimeInput, overtimeBalanceInput,
                   forceBreakCheckbox, manualInput, countdown, armed, intervals>>

\* as EndTimeUpdater, the manual-input attribute not read
EndTimeUpdater_Always ==
    LET newEnd == setCurrentTimeAsEndTime(startTimeInput, config,
                                          forceBreakCheckbox, now)
    IN  /\ intervals # {}
        /\ endTimeInput' = newEnd
        /\ Recalculate(startTimeInput, newEnd, overtimeBalanceInput, config,
                       forceBreakCheckbox)
        /\ UNCHANGED <<now, startTimeInput, overtimeBalanceInput,
                       forceBreakCheckbox, manualInput, config, countdown, armed,
                       intervals, selectors>>

\* the interval callback of setupEndTimeUpdater()
EndTimeUpdater ==
    IF intervals = {} \/ manualInput
    THEN UNCHANGED vars
    ELSE LET newEnd == setCurrentTimeAsEndTime(startTimeInput, config,
                                               forceBreakCheckbox, now)
         IN  /\ endTimeInput' = newEnd
             /\ Recalculate(startTimeInput, newEnd, overtimeBalanceInput, config,
                            forceBreakCheckbox)
             /\ UNCHANGED <<now, startTimeInput, overtimeBalanceInput,
                            forceBreakCheckbox, manualInput, config, countdown, armed,
                            intervals, selectors>>

\* time passes
AdvanceClock ==
    /\ \E t \in ClockInstants : t > now /\ now' = t
    /\ UNCHANGED <<config, calcVars, countdown, armed, intervals, selectors>>

\* the calculator page: no CountdownManager exists, the interval of
\* setupEndTimeUpdater() runs and no field holds its handle
Init ==
    /\ InitCalculator
    /\ countdown = NoCountdown
    /\ armed = "no"
    /\ intervals = {FirstHandle}
    /\ selectors = initialSelectors

Next ==
    \/ \E value \in StartChoices : StartTimeInput(value)
    \/ \E value \in EndChoices : EndTimeInput(value)
    \/ EndTimeInputSuggestion
    \/ \E value \in BalanceChoices : OvertimeBalanceInput(value)
    \/ ForceBreakChange
    \/ \E t \in TargetChoices, b \in BreakChoices : SaveCurrentConfig(t, b)
    \/ ResetConfiguration
    \/ EndTimeUpdater
    \/ AdvanceClock

Spec == Init /\ [][Next]_vars

(***************************************************************************)
(* Properties of the balance calculator                                    *)
(***************************************************************************)
\* what the two time fields say, read off the fields themselves
MinuteOfDay(field) == field.h * 60 + field.m
BothTimesGiven == startTimeInput.k = "hm" /\ endTimeInput.k = "hm"
SameDayPair ==
    BothTimesGiven /\ MinuteOfDay(startTimeInput) < MinuteOfDay(endTimeInput)
EndAtOrBeforeStart ==
    BothTimesGiven /\ MinuteOfDay(endTimeInput) <= MinuteOfDay(startTimeInput)
ElapsedSameDay == MinuteOfDay(endTimeInput) - MinuteOfDay(startTimeInput)
ElapsedOvernight == MinuteOfDay(endTimeInput) + 24 * 60 - MinuteOfDay(startTimeInput)
StartInstant == MinuteOfDay(startTimeInput) * MsPerMinute
PriorBalance == IF overtimeBalanceInput.k = "num" THEN overtimeBalanceInput.v ELSE 0
BreakEligible(elapsed) == elapsed >= 6 * 60 \/ forceBreakCheckbox

\* C1 as stated: for a same-day pair start < end the working minutes are
\* the elapsed minutes less the applied break, and the applied break is the
\* whole configured break when the elapsed time is at least 6 hours or the
\* override is set, and 0 in every other case.
C1_AsStated ==
    SameDayPair =>
        LET applied == IF BreakEligible(ElapsedSameDay) THEN config.breakDuration ELSE 0
        IN  /\ calc.path = "worked"
            /\ calc.effectiveBreakDuration = applied
            /\ calc.workingMinutes = ElapsedSameDay - applied

\* C1 amended: for a same-day pair start < end the working minutes are the
\* elapsed minutes less the applied break; the applied break is the
\* configured break capped at the elapsed minutes when the elapsed time is at
\* least 6 hours or the override is set, and 0 in every other case.
C1_WorkingMinutes ==
    SameDayPair =>
        LET applied == IF BreakEligible(ElapsedSameDay)
                       THEN Min(ElapsedSameDay, config.breakDuration)
                       ELSE 0
        IN  /\ calc.path = "worked"
            /\ calc.totalMinutes = ElapsedSameDay
            /\ calc.effectiveBreakDuration = applied
            /\ calc.workingMinutes = ElapsedSameDay - applied
            /\ view.workingHoursDisplay
                   = formatHours((ElapsedSameDay - applied) * MsPerMinute)

\* 08:00 to 14:00 with a break of 400 minutes: the break is mandatory and
\* capped at the 360 minutes elapsed
C1_Witness ==
    /\ SameDayPair
    /\ ElapsedSameDay = 6 * 60
    /\ ~forceBreakCheckbox
    /\ config.breakDuration > ElapsedSameDay
    /\ calc.effectiveBreakDuration = ElapsedSameDay

\* C2: whenever calculateTime applies the break it subtracts
\* min(elapsed minutes, break minutes), and the working hours it produces are
\* never negative, whatever the times, the break and the override.
C2_BreakCapped ==
    /\ calc.results.workingHours >= 0
    /\ calc.workingMinutes >= 0
    /\ view.workingHoursDisplay.neg = FALSE
    /\ calc.path = "worked" =>
          /\ calc.effectiveBreakDuration <= calc.totalMinutes
          /\ calc.effectiveBreakDuration <= config.breakDuration
          /\ calc.applyBreak =>
                calc.effectiveBreakDuration
                    = Min(calc.totalMinutes, config.breakDuration)
          /\ calc.workingMinutes = calc.totalMinutes - calc.effectiveBreakDuration
          /\ calc.results.workingHours = calc.workingMinutes * MsPerMinute

\* 20 minutes elapsed, 30 minutes break, override set: nothing is left
C2_Witness ==
    /\ SameDayPair
    /\ ElapsedSameDay = 20
    /\ config.breakDuration = 30
    /\ forceBreakCheckbox
    /\ calc.effectiveBreakDuration = 20
    /\ calc.results.workingHours = 0

\* C3 as stated: an end at or before the start is always taken to lie on the
\* following day, the elapsed time being end + 24 h - start, more than 0 and
\* at most 24 hours.
C3_AsStated ==
    EndAtOrBeforeStart =>
        /\ calc.path = "worked"
        /\ calc.totalMinutes = ElapsedOvernight
        /\ calc.totalMinutes > 0
        /\ calc.totalMinutes <= 24 * 60

\* C3 amended: an end at or before the start is taken to lie on the
\* following day, the elapsed time being end + 24 h - start, more than 0 and
\* at most 24 hours, except when the start is later than the current instant
\* and the end equals the start (the not-started-yet case of C8).
C3_Overnight ==
    (EndAtOrBeforeStart
        /\ ~(StartInstant > calc.currentTime /\ endTimeInput = startTimeInput)) =>
        /\ calc.path = "worked"
        /\ calc.end = Date(MinuteOfDay(endTimeInput) * MsPerMinute + MsPerDay)
        /\ calc.totalMinutes = ElapsedOvernight
        /\ calc.totalMinutes > 0
        /\ calc.totalMinutes <= 24 * 60

\* start 22:00, end 06:00: 8 hours
C3_Witness ==
    /\ startTimeInput = Clock(22 * 60)
    /\ endTimeInput = Clock(6 * 60)
    /\ calc.path = "worked"
    /\ calc.totalMinutes = 8 * 60

\* C4: when the end time is the suggested end time the page shows, today's
\* balance is exactly zero.
C4_RoundTrip ==
    (startTimeInput.k = "hm" /\ endTimeInput = view.suggestedEndTimeDisplay) =>
        /\ calc.path = "worked"
        /\ calc.results.todayBalance = 0
        /\ view.timeBalanceDisplay = Str("dur", FALSE, 0, 0)

\* C5: with a parseable start time the suggested end time is start + target
\* + b, b being the break when (target >= 6 h or override) and the target is
\* not shorter than the break, and 0 otherwise; it is shown with or without
\* an end time, and the first block and the full calculation agree.
SuggestionBreak ==
    IF (config.targetHours >= 6 * MsPerHour \/ forceBreakCheckbox)
       /\ config.targetHours >= config.breakDuration * MsPerMinute
    THEN config.breakDuration
    ELSE 0
ExpectedSuggestion == StartInstant + config.targetHours + SuggestionBreak * MsPerMinute
C5_Suggestion ==
    startTimeInput.k = "hm" =>
        /\ view.suggestedEndTimeDisplay = formatTime(ExpectedSuggestion)
        /\ calc.firstSuggestion = Date(ExpectedSuggestion)
        /\ calc.path \in {"worked", "future"} =>
              calc.results.suggestedEndTime = calc.firstSuggestion[1]

\* target 4 h, break 30 min, override set, both times given: the break is
\* part of the suggestion on the full path
C5_Witness ==
    /\ BothTimesGiven
    /\ calc.path = "worked"
    /\ config.targetHours = 4 * MsPerHour
    /\ config.breakDuration = 30
    /\ forceBreakCheckbox
    /\ view.suggestedEndTimeDisplay
           = formatTime(StartInstant + 4 * MsPerHour + 30 * MsPerMinute)

\* C6: whenever balance figures are produced, today's balance is working
\* hours - target hours and the total balance is prior balance + today's
\* balance, an empty or non-numeric prior balance counting as 0.
C6_Balances ==
    calc.path \in {"worked", "future"} =>
        /\ calc.results.targetHours = config.targetHours
        /\ calc.results.todayBalance = calc.results.workingHours - config.targetHours
        /\ calc.results.newTotalBalance = PriorBalance + calc.results.todayBalance
        /\ view.workingHoursDisplay = formatHours(calc.results.workingHours)
        /\ view.timeBalanceDisplay
               = formatHours(calc.results.workingHours - config.targetHours)
        /\ view.totalOvertimeDisplay
               = formatHours(PriorBalance + calc.results.workingHours
                                 - config.targetHours)

\* overtime today on top of a prior balance of -2 hours
C6_Witness ==
    /\ calc.path = "worked"
    /\ overtimeBalanceInput = NumStr(-2 * MsPerHour)
    /\ calc.results.todayBalance > 0
    /\ calc.results.newTotalBalance = calc.results.todayBalance - 2 * MsPerHour

\* C7: without a parseable start time the suggested end time, the working
\* hours and both balances show '--:--'; with a parseable start time but no
\* parseable end time the suggestion is shown and the other three show '--:--'.
C7_Unavailable ==
    /\ startTimeInput.k # "hm" =>
          /\ view.suggestedEndTimeDisplay = Unavailable
          /\ view.workingHoursDisplay = Unavailable
          /\ view.timeBalanceDisplay = Unavailable
          /\ view.totalOvertimeDisplay = Unavailable
    /\ (startTimeInput.k = "hm" /\ endTimeInput.k # "hm") =>
          /\ view.suggestedEndTimeDisplay.k = "hm"
          /\ view.workingHoursDisplay = Unavailable
          /\ view.timeBalanceDisplay = Unavailable
          /\ view.totalOvertimeDisplay = Unavailable

\* the start time was replaced by text after figures had been shown
C7_Witness ==
    /\ startTimeInput = TextStr
    /\ endTimeInput.k = "hm"
    /\ view.balanceItemClass # ""
    /\ view.totalOvertimeDisplay = Unavailable

\* C8: a start later than the current instant with an end equal to the start
\* gives working hours 0, today's balance -target, total balance prior -
\* target and the suggestion start + target + effective break; the end is
\* not moved to the next day.
C8_FutureStart ==
    (BothTimesGiven /\ endTimeInput = startTimeInput
        /\ StartInstant > calc.currentTime) =>
        /\ calc.path = "future"
        /\ calc.end = Date(StartInstant)
        /\ calc.results.workingHours = 0
        /\ calc.results.todayBalance = -config.targetHours
        /\ calc.results.newTotalBalance = PriorBalance - config.targetHours
        /\ view.workingHoursDisplay = formatHours(0)
        /\ view.timeBalanceDisplay = formatHours(-config.targetHours)
        /\ view.totalOvertimeDisplay = formatHours(PriorBalance - config.targetHours)
        /\ view.suggestedEndTimeDisplay = formatTime(ExpectedSuggestion)

\* at 07:00 the start and the end are both 22:00
C8_Witness ==
    /\ startTimeInput = Clock(22 * 60)
    /\ endTimeInput = Clock(22 * 60)
    /\ calc.currentTime = 7 * MsPerHour
    /\ calc.path = "future"

\* C16: once the user has edited the end time the manual-input flag stays
\* set and only a further edit by the user changes the end time; while the
\* flag is not set, every change of the start time and every periodic refresh
\* fills the end time in again and recalculates with it.
UserEditsEndTime ==
    \/ \E value \in EndChoices : EndTimeInput(value)
    \/ EndTimeInputSuggestion
C16_Step ==
    /\ manualInput =>
           /\ manualInput'
           /\ endTimeInput' # endTimeInput => UserEditsEndTime
    /\ (~manualInput /\ ((\E value \in StartChoices : StartTimeInput(value))
                            \/ EndTimeUpdater)) =>
           /\ ~manualInput'
           /\ endTimeInput' = setCurrentTimeAsEndTime(startTimeInput', config,
                                                      forceBreakCheckbox, now)
           /\ calc'.currentTime = now
           /\ calc'.end # Null
C17_Idempotent ==
    LET again == calculateTime(view, startTimeInput, endTimeInput,
                               overtimeBalanceInput, config, forceBreakCheckbox,
                               calc.currentTime)
    IN  /\ DOMAIN again = {"view", "calc"}
        /\ again.view = view
        /\ again.calc = calc

\* figures are shown, with a polarity on both balances
C17_Witness ==
    /\ calc.path = "worked"
    /\ view.balanceItemClass = "negative"
    /\ view.overtimeItemClass = "negative"
    /\ view.workingHoursDisplay.k = "dur"
    /\ calc.currentTime = now

\* C24: the polarity of each balance, on the value and on its item, is the
\* sign of the value shown, and no polarity is left when the figure is
\* withheld.
C24_Polarity ==
    /\ view.timeBalanceDisplay.k = "dur" =>
           /\ view.timeBalanceClass = Polarity(calc.results.todayBalance)
           /\ view.balanceItemClass = Polarity(calc.results.todayBalance)
    /\ view.timeBalanceDisplay = Unavailable =>
           /\ view.timeBalanceClass = ""
           /\ view.balanceItemClass = ""
    /\ view.totalOvertimeDisplay.k = "dur" =>
           /\ view.totalOvertimeClass = Polarity(calc.results.newTotalBalance)
           /\ view.overtimeItemClass = Polarity(calc.results.newTotalBalance)
    /\ view.totalOvertimeDisplay = Unavailable =>
           /\ view.totalOvertimeClass = ""
           /\ view.overtimeItemClass = ""

\* C26: with an end time that was filled in from the clock and a start at or
\* before the instant of the calculation, the elapsed minutes are the minute
\* of the clock less the minute of the start.
C26_ElapsedSinceStart ==
    (/\ ~manualInput
     /\ BothTimesGiven
     /\ StartInstant <= calc.currentTime
     /\ endTimeInput = formatTime(calc.currentTime)) =>
        /\ calc.path = "worked"
        /\ calc.totalMinutes
               = MinuteOfDay(endTimeInput) - MinuteOfDay(startTimeInput)
        /\ calc.results.workingHours <= calc.currentTime - StartInstant

\* C27: whenever the break option is hidden after a calculation, the same
\* calculation with the override the other way round gives the same working
\* hours, balances and suggested end time.
C27_HiddenOverride ==
    (view.breakOptionHidden /\ calc.path \in {"worked", "future"}) =>
        calculateTime(view, startTimeInput, endTimeInput, overtimeBalanceInput,
                      config, ~forceBreakCheckbox, calc.currentTime).calc.results
            = calc.results

(***************************************************************************)
(* parseTime on what can be written into a time field                      *)
(***************************************************************************)
\* the hours and minutes written: in range, at the limits and beyond them
TypedHours == {8, 23, 24, 25}
TypedMinutes == {0, 59, 60}
TypedTimes ==
    {EmptyStr, TextStr} \cup {HM(h, m) : h \in TypedHours, m \in TypedMinutes}

\* the page with both time fields written, before the listeners have run
InitParse ==
    /\ now \in ClockInstants
    /\ startTimeInput \in TypedTimes
    /\ endTimeInput \in TypedTimes
    /\ overtimeBalanceInput = EmptyNum
    /\ forceBreakCheckbox = FALSE
    /\ manualInput = FALSE
    /\ config = defaultConfig
    /\ view = InitialView
    /\ calc = NoCalc
    /\ countdown = NoCountdown
    /\ armed = "no"
    /\ intervals = {FirstHandle}
    /\ selectors = initialSelectors

\* handleInputChange(): calculateTime on the fields as they are
HandleInputChange ==
    /\ Recalculate(startTimeInput, endTimeInput, overtimeBalanceInput, config,
                   forceBreakCheckbox)
    /\ UNCHANGED <<now, startTimeInput, endTimeInput, overtimeBalanceInput,
                   forceBreakCheckbox, manualInput, config, countdown, armed,
                   intervals, selectors>>

NextParse == HandleInputChange

ParseSpec == InitParse /\ [][NextParse]_vars

\* a time string H:M with the hours in 0..23 and the minutes in 0..59
InRange(field) == field.k = "hm" /\ field.h \in 0..23 /\ field.m \in 0..59

\* C18: parseTime returns null for a start time that is no number or out of
\* range, the time it returns is the hour and minute written, today, and
\* with a start time it does not return the figures are withheld as for an
\* empty field.
C18_ParseTime ==
    calc.path # "none" =>
        /\ ~InRange(startTimeInput) =>
               /\ calc.start = Null
               /\ view.suggestedEndTimeDisplay = Unavailable
               /\ view.workingHoursDisplay = Unavailable
               /\ view.timeBalanceDisplay = Unavailable
               /\ view.totalOvertimeDisplay = Unavailable
        /\ calc.start # Null =>
               /\ InRange(startTimeInput)
               /\ calc.start[1] - DayStart(now)
                      = startTimeInput.h * MsPerHour + startTimeInput.m * MsPerMinute
               /\ calc.start[1] - DayStart(now) < MsPerDay

(***************************************************************************)
(* formatHours on the balances handed to updateResults                     *)
(***************************************************************************)
\* balances in milliseconds of hours: zero, whole minutes, half minutes,
\* seconds either side of a minute, more than a day
FormatValues ==
    {0, 90 * MsPerMinute, -90 * MsPerMinute,
     59 * MsPerMinute + 30 * MsPerSecond, -(59 * MsPerMinute + 30 * MsPerSecond),
     29 * MsPerSecond, -29 * MsPerSecond, 30 * MsPerSecond,
     -(7 * MsPerHour + 59 * MsPerMinute + 31 * MsPerSecond),
     100 * MsPerHour + 15 * MsPerMinute}

\* calculateTime has computed its results and is about to call updateResults
InitFormat ==
    /\ now \in ClockInstants
    /\ startTimeInput = Clock(480)
    /\ endTimeInput = Clock(840)
    /\ overtimeBalanceInput = EmptyNum
    /\ forceBreakCheckbox = FALSE
    /\ manualInput = TRUE
    /\ config = defaultConfig
    /\ view = InitialView
    /\ \E today \in FormatValues, total \in FormatValues :
           calc = [NoCalc EXCEPT !.path = "computed",
                                 !.results = [workingHours |-> Abs(today),
                                              targetHours |-> config.targetHours,
                                              todayBalance |-> today,
                                              newTotalBalance |-> total,
                                              suggestedEndTime |-> 0]]
    /\ countdown = NoCountdown
    /\ armed = "no"
    /\ intervals = {FirstHandle}
    /\ selectors = initialSelectors

\* updateResults(results) on what was computed
UpdateResults ==
    /\ calc.path = "computed"
    /\ view' = updateResults(view, calc.results)
    /\ calc' = [calc EXCEPT !.path = "worked"]
    /\ UNCHANGED <<now, startTimeInput, endTimeInput, overtimeBalanceInput,
                   forceBreakCheckbox, manualInput, config, countdown, armed,
                   intervals, selectors>>

NextFormat == UpdateResults

FormatSpec == InitFormat /\ [][NextFormat]_vars

\* text is the value rendered as [-]HH:MM: the sign once, exactly when the
\* value is negative, the minutes in 00..59, the hours taking the rest, the
\* whole being the magnitude rounded to the nearest minute (a half up)
Renders(text, value) ==
    LET shown == (text.h * 60 + text.m) * MsPerMinute
        magnitude == Abs(value)
    IN  /\ text.k = "dur"
        /\ text.neg <=> value < 0
        /\ text.h >= 0
        /\ text.m \in 0..59
        /\ 2 * (shown - magnitude) <= MsPerMinute
        /\ 2 * (magnitude - shown) < MsPerMinute

\* C23: formatHours renders a signed duration as an optional '-' and HH:MM
\* of the magnitude rounded to whole minutes, the minutes in 00..59, the
\* hours carrying the overflow, the '-' there exactly for a negative value.
C23_FormatHours ==
    calc.path = "worked" =>
        /\ Renders(view.workingHoursDisplay, calc.results.workingHours)
        /\ Renders(view.targetDisplay, calc.results.targetHours)
        /\ Renders(view.timeBalanceDisplay, calc.results.todayBalance)
        /\ Renders(view.totalOvertimeDisplay, calc.results.newTotalBalance)

\* -1.5 hours gives -01:30, and 59 minutes 30 seconds give 01:00
C23_Witness ==
    /\ calc.path = "worked"
    /\ calc.results.todayBalance = -90 * MsPerMinute
    /\ view.timeBalanceDisplay = Str("dur", TRUE, 1, 30)
    /\ calc.results.newTotalBalance = 59 * MsPerMinute + 30 * MsPerSecond
    /\ view.totalOvertimeDisplay = Str("dur", FALSE, 1, 0)

(***************************************************************************)
(* The countdown page                                                      *)
(***************************************************************************)
\* the page is opened at 16:29:55
PageOpenInstant == 16 * MsPerHour + 29 * MsPerMinute + 55 * MsPerSecond

\* the time parameter of the URL: none, HH:MM, a number of minutes, other text
Minutes(n) == Str("min", FALSE, 0, n)
TimeParams ==
    {EmptyStr, HM(16, 30), HM(16, 0), Minutes(0), Minutes(1), TextStr,
     Minutes(15), Minutes(30), Minutes(31)}

\* the milliseconds between two runs of the interval callback
TickGaps == {400, 1000, 2600}

\* the seconds the page is followed for
MaxRunSeconds == 8

\* the calculator fields on a page that has no calculator
NoCalculator ==
    /\ startTimeInput = EmptyStr
    /\ endTimeInput = EmptyStr
    /\ overtimeBalanceInput = EmptyNum
    /\ forceBreakCheckbox = FALSE
    /\ manualInput = FALSE
    /\ view = InitialView
    /\ calc = NoCalc

\* new CountdownManager(): the fields are set, initialize() waits for the
\* translations
InitCountdown ==
    /\ now = PageOpenInstant
    /\ config = defaultConfig
    /\ NoCalculator
    /\ countdown = constructed
    /\ armed = "no"
    /\ intervals = {}
    /\ selectors = NoSelectors

\* initialize() after the translations have loaded: the target from the URL,
\* or from the configured target hours, then startCountdown()
Initialize(timeParam, negativeParam) ==
    /\ countdown.intervalId = 0
    /\ countdown.countdownClass # "absent"
    /\ LET targeted ==
               IF timeParam.k # "empty"
               THEN setTargetTime(countdown, timeParam, negativeParam, now)
               ELSE setTargetTime(countdown,
                                  HM(config.targetHours \div MsPerHour, 0),
                                  FALSE, now)
       IN  /\ armed' = IF targeted.isOvertime THEN "up" ELSE "down"
           /\ countdown' = startCountdown(targeted, now)
           /\ intervals' = startCountdownIntervals(targeted, intervals)
    /\ UNCHANGED <<now, config, calcVars, selectors>>

\* the interval callback, gap milliseconds after the last update
Tick(gap) ==
    /\ countdown.intervalId \in intervals
    /\ now + gap <= PageOpenInstant + MaxRunSeconds * MsPerSecond
    /\ now' = now + gap
    /\ countdown' = updateCountdown(countdown, now + gap)
    /\ UNCHANGED <<config, calcVars, armed, intervals, selectors>>

NextCountdown ==
    \/ \E timeParam \in TimeParams, negativeParam \in BOOLEAN :
           Initialize(timeParam, negativeParam)
    \/ \E gap \in TickGaps : Tick(gap)

CountdownSpec == InitCountdown /\ [][NextCountdown]_vars

(***************************************************************************)
(* Properties of the countdown                                             *)
(***************************************************************************)
Running == countdown.intervalId # 0
TargetInstant == countdown.targetTime[1]

\* C9: for a countdown armed counting down, showEndOfWorkNotification runs
\* at the first update with now >= target, exactly once, and no update of a
\* countdown that is counting up runs it again.
C9_Step ==
    LET crossing == /\ ~countdown.isOvertime
                    /\ armed' = "down"
                    /\ countdown'.intervalId # 0
                    /\ IsDate(countdown'.targetTime)
                    /\ now' >= countdown'.targetTime[1]
    IN  /\ countdown'.notifications
               = countdown.notifications + (IF crossing THEN 1 ELSE 0)
        /\ countdown.isOvertime =>
               countdown'.notifications = countdown.notifications
        /\ (armed' = "down" /\ countdown'.intervalId # 0) =>
               countdown'.notifications = (IF countdown'.isOvertime THEN 1 ELSE 0)
C9_NotifyOnce == [][C9_Step]_vars

\* the countdown crossed its target and was updated again afterwards
C9_Witness ==
    /\ Running
    /\ armed = "down"
    /\ countdown.isOvertime
    /\ countdown.notifications = 1
    /\ countdown.targetTime = Date(16 * MsPerHour + 30 * MsPerMinute)
    /\ countdown.overtimeStartTime[1] > TargetInstant
    /\ now > countdown.overtimeStartTime[1] + MsPerSecond

Anchor == countdown.overtimeStartTime
DisplayedSeconds(display) == display.h * 3600 + display.m * 60 + display.s
Overtime(ms) ==
    [k |-> "hms", plus |-> TRUE, h |-> ms \div 3600000,
     m |-> (ms \div 60000) % 60, s |-> (ms \div 1000) % 60]

\* C11: at the first update at which now reaches or passes the target, a
\* countdown armed counting down switches to counting up and takes the
\* instant of that update, not the target, as overtime anchor; before that
\* update it does not switch.
C11_Step ==
    LET pending == ~countdown.isOvertime /\ armed' = "down"
        crossing == /\ pending
                    /\ countdown'.intervalId # 0
                    /\ IsDate(countdown'.targetTime)
                    /\ now' >= countdown'.targetTime[1]
    IN  /\ crossing =>
               /\ countdown'.isOvertime
               /\ countdown'.overtimeStartTime = Date(now')
               /\ countdown'.countdownDisplay = Overtime(0)
               /\ countdown'.countdownClass = "overtime"
        /\ (pending /\ ~crossing) =>
               /\ ~countdown'.isOvertime
               /\ countdown'.overtimeStartTime = Null
C11_CrossingAnchor == [][C11_Step]_vars

\* target 16:30:00, updates at 16:29:57.600 and 16:30:00.200: the anchor is
\* 16:30:00.200
C11_Witness ==
    /\ Running
    /\ armed = "down"
    /\ countdown.isOvertime
    /\ countdown.targetTime = Date(16 * MsPerHour + 30 * MsPerMinute)
    /\ Anchor = Date(TargetInstant + 200)
    /\ now = Anchor[1]

\* C12: the overtime anchor is assigned once, when the countdown starts to
\* count up: it is unset exactly while the countdown counts down, no later
\* update changes it or leaves the counting up, and the overtime displayed is
\* measured from the anchor.
C12_Step ==
    /\ countdown'.isOvertime <=> countdown'.overtimeStartTime # Null
    /\ countdown.isOvertime =>
           /\ countdown'.isOvertime
           /\ countdown'.overtimeStartTime = countdown.overtimeStartTime
    /\ countdown'.isOvertime =>
           countdown'.countdownDisplay
               = Overtime(now' - countdown'.overtimeStartTime[1])
C12_AnchorOnce == [][C12_Step]_vars

\* counting up for more than two seconds from an anchor later than the target
C12_Witness ==
    /\ Running
    /\ countdown.isOvertime
    /\ IsDate(countdown.targetTime)
    /\ Anchor[1] > TargetInstant
    /\ now >= Anchor[1] + 2 * MsPerSecond
    /\ countdown.countdownDisplay.s >= 2

\* C13: a countdown that was armed counting up, by a past HH:MM time or by
\* the negative flag with an amount of overtime, has the target instant as
\* anchor and displays now - target.
C13_PrimedAnchor ==
    (Running /\ armed = "up" /\ IsDate(countdown.targetTime)) =>
        /\ countdown.isOvertime
        /\ Anchor = countdown.targetTime
        /\ countdown.countdownDisplay = Overtime(now - TargetInstant)

\* C14: while counting up every update displays now - anchor cut to whole
\* seconds; that duration is never negative and grows from each update to the
\* next when the clock has advanced, so the display never goes back and moves
\* on whenever a full second has passed.
C14_Step ==
    countdown'.isOvertime =>
        LET shown == now' - countdown'.overtimeStartTime[1]
            before == now - countdown.overtimeStartTime[1]
        IN  /\ shown >= 0
            /\ countdown'.countdownDisplay = Overtime(shown)
            /\ countdown'.countdownClass = "overtime"
            /\ (countdown.isOvertime /\ now' > now) =>
                   /\ shown > before
                   /\ DisplayedSeconds(countdown'.countdownDisplay)
                          >= DisplayedSeconds(countdown.countdownDisplay)
                   /\ now' - now >= MsPerSecond =>
                          DisplayedSeconds(countdown'.countdownDisplay)
                              > DisplayedSeconds(countdown.countdownDisplay)
CountingDown == Running /\ ~countdown.isOvertime /\ IsDate(countdown.targetTime)
Remaining == TargetInstant - now

\* C15 as stated: more than 30 minutes left is normal, from 15 minutes up to
\* and including 30 minutes is warning, less than 15 minutes is critical.
C15_AsStated ==
    CountingDown =>
        countdown.countdownClass
            = IF Remaining > 30 * MsPerMinute THEN "regular"
              ELSE IF Remaining >= 15 * MsPerMinute THEN "warning"
              ELSE "danger"

\* C15 amended: the severity is a function of the time left at the update
\* alone: 30 minutes or more is normal, from 15 minutes up to but not
\* including 30 minutes is warning, less than 15 minutes is critical.
C15_Severity ==
    CountingDown =>
        countdown.countdownClass
            = IF Remaining >= 30 * MsPerMinute THEN "regular"
              ELSE IF Remaining >= 15 * MsPerMinute THEN "warning"
              ELSE "danger"

\* exactly 30 minutes left: normal
C15_Witness ==
    /\ CountingDown
    /\ Remaining = 30 * MsPerMinute
    /\ countdown.countdownClass = "regular"

\* C19: whatever the time parameter and the negative flag, the running
\* countdown shows a duration HH:MM:SS and is never counting down to a
\* target that is no time.
C19_WellFormed ==
    Running =>
        /\ countdown.countdownDisplay.k = "hms"
        /\ countdown.countdownDisplay.h >= 0
        /\ countdown.countdownDisplay.m \in 0..59
        /\ countdown.countdownDisplay.s \in 0..59
        /\ countdown.isOvertime \/ IsDate(countdown.targetTime)

\* C25: opened without a time parameter, the countdown takes the instant
\* targetHours hours after the current instant as target and starts counting
\* down with that time remaining.
C25_Step ==
    Initialize(EmptyStr, FALSE) =>
        /\ armed' = "down"
        /\ ~countdown'.isOvertime
        /\ countdown'.targetTime = Date(now + config.targetHours)
        /\ countdown'.countdownDisplay
               = [k |-> "hms", plus |-> FALSE,
                  h |-> config.targetHours \div MsPerHour, m |-> 0, s |-> 0]
C25_Fallback == [][C25_Step]_vars

\* C28: once the countdown counts up no update returns it to counting down,
\* and no update of the running countdown changes the target.
C28_Step ==
    /\ countdown.isOvertime => countdown'.isOvertime
    /\ Running =>
           /\ countdown'.targetTime = countdown.targetTime
           /\ countdown'.intervalId = countdown.intervalId
    /\ (Running /\ countdown.isOvertime) => countdown'.countdownClass = "overtime"
C28_NoReturn == [][C28_Step]_vars

\* the countdown crossed its target two seconds ago or more and counts up
C28_Witness ==
    /\ Running
    /\ armed = "down"
    /\ countdown.isOvertime
    /\ countdown.countdownClass = "overtime"
    /\ IsDate(countdown.targetTime)
    /\ now >= TargetInstant + 2 * MsPerSecond

(***************************************************************************)
(* The configuration dialog                                                *)
(***************************************************************************)
\* the radio buttons of the dialog and contents of its custom fields: hours
\* that are no number, zero, negative and fractional; breaks that are text,
\* negative, fractional and above the documented maximum
MaxBreakDuration == 480
ConfigTargetChoices ==
    {Radio(6 * MsPerHour), Radio(8 * MsPerHour),
     Custom("num", 7 * MsPerHour + 30 * MsPerMinute), Custom("num", 0),
     Custom("num", -MsPerHour), Custom("text", 0)}
ConfigBreakChoices ==
    {Radio(0), Radio(30), Radio(45), Custom("num", 400), Custom("num", 480),
     Custom("num", 600), Custom("num", -5), Custom("frac", 125), Custom("text", 0)}
Themes == {"system", "light", "dark"}
Languages == {"de", "en"}

\* the calculator page with a start time of 08:00 at 16:30
InitConfig ==
    /\ now = 16 * MsPerHour + 30 * MsPerMinute
    /\ startTimeInput \in {EmptyStr, Clock(480)}
    /\ endTimeInput = setCurrentTimeAsEndTime(startTimeInput, defaultConfig, FALSE, now)
    /\ overtimeBalanceInput = EmptyNum
    /\ forceBreakCheckbox = FALSE
    /\ manualInput = FALSE
    /\ config = defaultConfig
    /\ \E r \in {calculateTime(InitialView, startTimeInput, endTimeInput,
                                overtimeBalanceInput, config, forceBreakCheckbox, now)} :
           /\ view = r.view
           /\ calc = r.calc
    /\ countdown = NoCountdown
    /\ armed = "no"
    /\ intervals = {FirstHandle}
    /\ selectors = initialSelectors

\* handleCustomHoursInput(): a number above zero checks the custom radio
\* button and saves the form, anything else is left in the field
CustomHoursInput(content, breakChoice) ==
    IF content.k = "num" /\ content.v > 0
    THEN SaveCurrentConfig(Custom(content.k, content.v), breakChoice)
    ELSE UNCHANGED vars

\* handleCustomBreakInput(): a number from zero checks the custom radio
\* button and saves the form, anything else is left in the field
CustomBreakInput(content, targetChoice) ==
    LET customBreak == parseInt(content)
    IN  IF customBreak # <<>> /\ customBreak[1] >= 0
        THEN SaveCurrentConfig(targetChoice, Custom(content.k, content.v))
        ELSE UNCHANGED vars

\* setTheme(): one of the three themes becomes the current theme
setTheme(sel, theme) ==
    IF theme \in {"system", "light", "dark"}
    THEN [sel EXCEPT !.currentTheme = theme]
    ELSE sel

\* click on a button of the theme control
ThemeClick(themeValue) ==
    /\ selectors' = [setTheme(selectors, themeValue)
                        EXCEPT !.themeHiddenInput = themeValue,
                               !.activeThemeButton = themeValue]
    /\ UNCHANGED <<now, config, calcVars, countdown, armed, intervals>>

\* click on a button of the language control: updateLanguage() stores the
\* language in the configuration and sets it in the translation manager
LanguageClick(langValue) ==
    /\ config' = [config EXCEPT !.language = langValue]
    /\ selectors' = [selectors EXCEPT !.languageHiddenInput = langValue,
                                      !.currentLanguage = langValue,
                                      !.activeLanguageButton = langValue]
    /\ UNCHANGED <<now, calcVars, countdown, armed, intervals>>

NextConfig ==
    \/ \E t \in ConfigTargetChoices, b \in ConfigBreakChoices : SaveCurrentConfig(t, b)
    \/ \E t \in ConfigTargetChoices, b \in ConfigBreakChoices : CustomHoursInput(t, b)
    \/ \E t \in ConfigTargetChoices, b \in ConfigBreakChoices : CustomBreakInput(b, t)
    \/ \E theme \in Themes : ThemeClick(theme)
    \/ \E lang \in Languages : LanguageClick(lang)
    \/ ResetConfiguration

ConfigSpec == InitConfig /\ [][NextConfig]_vars

\* a custom value the form does not accept
InvalidHours(choice) == choice.custom /\ ~(choice.k = "num" /\ choice.v > 0)
InvalidBreak(choice) ==
    choice.custom /\ (choice.k = "text" \/ (choice.k \in {"num", "frac"} /\ choice.v < 0))

\* C21: after any sequence of configuration operations the stored target
\* hours are above zero and the stored break is a whole number of minutes
\* from zero; saving a form with an invalid custom value stores 8 hours or
\* 30 minutes in its place, a decimal break is stored cut off at the point,
\* and typing an invalid custom value stores nothing
C21_Step ==
    /\ config'.targetHours > 0
    /\ config'.breakDuration \in Nat
    /\ \A t \in ConfigTargetChoices, b \in ConfigBreakChoices :
           /\ SaveCurrentConfig(t, b) =>
                  /\ InvalidHours(t) => config'.targetHours = DefaultTargetHours * MsPerHour
                  /\ InvalidBreak(b) => config'.breakDuration = DefaultBreakDuration
                  /\ (b.custom /\ b.k = "frac" /\ b.v >= 0) =>
                         /\ config'.breakDuration * 10 <= b.v
                         /\ b.v < (config'.breakDuration + 1) * 10
           /\ (InvalidHours(t) /\ CustomHoursInput(t, b)) => config' = config
           /\ (InvalidBreak(b) /\ CustomBreakInput(b, t)) => config' = config
C21_ValidSettings ==
    /\ config.targetHours > 0 /\ config.breakDuration \in Nat
    /\ [][C21_Step]_vars
\* reached: custom hours stored together with a break cut off to 12 minutes
C21_Witness ==
    /\ config.targetHours = 7 * MsPerHour + 30 * MsPerMinute
    /\ config.breakDuration = 12
    /\ calc.path = "worked"

\* C22: the break duration the calculator uses is between 0 and 480 minutes
C22_BreakRange == config.breakDuration \in 0..MaxBreakDuration

\* C29: resetConfiguration leaves the stored language, the language selector
\* and the highlighted language button at 'de', and target hours, break and
\* theme at 8 hours, 30 minutes and 'system'
C29_Step ==
    ResetConfiguration =>
        /\ config'.language = "de"
        /\ selectors'.languageHiddenInput = "de"
        /\ selectors'.activeLanguageButton = "de"
        /\ config'.targetHours = DefaultTargetHours * MsPerHour
        /\ config'.breakDuration = DefaultBreakDuration
        /\ selectors'.currentTheme = "system"
C29_ResetLanguage == [][C29_Step]_vars

(***************************************************************************)
(* The calculateTime of src/script.js and of src/unnamed/part_001          *)
(***************************************************************************)
\* src/script.js, lines 436-462: the suggestion and the balance if leaving
\* now, shown as soon as the start time parses
currentBalance_ScriptJs(startTime, overtimeBalance, cfg, at) ==
    LET currentOvertimeBalance == ParseBalance(overtimeBalance)
        start == parseTime(startTime, at)
        suggestedEndTime ==
            start[1] + cfg.targetHours + cfg.breakDuration * MsPerMinute
        currentWorkingHours ==
            Max(0, (at - start[1]) - cfg.breakDuration * MsPerMinute)
        currentBalance == currentWorkingHours - cfg.targetHours
        currentTotalBalance == currentOvertimeBalance + currentBalance
    IN  IF startTime.k # "empty" /\ start # Null
        THEN [firstSuggestion |-> Date(suggestedEndTime),
              currentTotalBalance |-> <<currentTotalBalance>>]
        ELSE [firstSuggestion |-> Null, currentTotalBalance |-> <<>>]

\* src/script.js, calculateTime(): what is handed to updateResults; the
\* break always subtracted, the working minutes not held at zero
calculateTime_ScriptJs(startTime, endTime, overtimeBalance, cfg, at) ==
    LET currentOvertimeBalance == ParseBalance(overtimeBalance)
        first == currentBalance_ScriptJs(startTime, overtimeBalance, cfg, at)
        start == parseTime(startTime, at)
        parsedEnd == parseTime(endTime, at)
        end == IF parsedEnd[1] <= start[1] THEN parsedEnd[1] + MsPerDay ELSE parsedEnd[1]
        totalMinutes == (end - start[1]) \div MsPerMinute
        workingMinutes == totalMinutes - cfg.breakDuration
        workingHours == workingMinutes * MsPerMinute
        targetHours == cfg.targetHours
        todayBalance == workingHours - targetHours
        newTotalBalance == currentOvertimeBalance + todayBalance
        suggestedEndTime == start[1] + targetHours + cfg.breakDuration * MsPerMinute
    IN  IF startTime.k = "empty" \/ endTime.k = "empty"
        THEN [path |-> "missing", first |-> first, results |-> NoResults]
        ELSE IF start = Null \/ parsedEnd = Null
        THEN [path |-> "unparseable", first |-> first, results |-> NoResults]
        ELSE [path |-> "worked", first |-> first,
              results |-> [workingHours |-> workingHours,
                           targetHours |-> targetHours,
                           todayBalance |-> todayBalance,
                           newTotalBalance |-> newTotalBalance,
                           suggestedEndTime |-> suggestedEndTime]]

\* src/unnamed/part_001, calculateTime(): the suggestion from the start time
\* alone, then what is handed to updateResults
calculateTime_Part001(startTime, endTime, overtimeBalance, cfg, at) ==
    LET currentOvertimeBalance == ParseBalance(overtimeBalance)
        start == parseTime(startTime, at)
        parsedEnd == parseTime(endTime, at)
        first == IF startTime.k # "empty" /\ start # Null
                 THEN Date(start[1] + cfg.targetHours
                                    + cfg.breakDuration * MsPerMinute)
                 ELSE Null
        end == IF parsedEnd[1] <= start[1] THEN parsedEnd[1] + MsPerDay ELSE parsedEnd[1]
        totalMinutes == (end - start[1]) \div MsPerMinute
        workingMinutes == totalMinutes - cfg.breakDuration
        workingHours == workingMinutes * MsPerMinute
        targetHours == cfg.targetHours
        todayBalance == workingHours - targetHours
        newTotalBalance == currentOvertimeBalance + todayBalance
        suggestedEndTime == start[1] + targetHours + cfg.breakDuration * MsPerMinute
    IN  IF startTime.k = "empty" \/ endTime.k = "empty"
        THEN [path |-> "missing", first |-> first, results |-> NoResults]
        ELSE IF start = Null \/ parsedEnd = Null
        THEN [path |-> "unparseable", first |-> first, results |-> NoResults]
        ELSE [path |-> "worked", first |-> first,
              results |-> [workingHours |-> workingHours,
                           targetHours |-> targetHours,
                           todayBalance |-> todayBalance,
                           newTotalBalance |-> newTotalBalance,
                           suggestedEndTime |-> suggestedEndTime]]

\* inputs around the limits of the common domain: 6 hours elapsed exactly,
\* one minute less, a whole day (end = start), a start after the current
\* time; targets of 4, 6 and 8 hours; breaks of 0, 30, 360 and 400 minutes
VariantStarts == {EmptyStr, TextStr, Clock(480), Clock(1380)}
VariantEnds == {EmptyStr, Clock(480), Clock(839), Clock(840), Clock(990), Clock(1380)}
VariantTargets == {Radio(4 * MsPerHour), Radio(6 * MsPerHour), Radio(8 * MsPerHour)}
VariantBreaks == {Radio(0), Radio(30), Custom("num", 360), Custom("num", 400)}
VariantBalances == {EmptyNum, NumStr(-2 * MsPerHour)}

\* the calculator page at 16:30
InitVariants ==
    /\ now = 16 * MsPerHour + 30 * MsPerMinute
    /\ startTimeInput = EmptyStr
    /\ endTimeInput = setCurrentTimeAsEndTime(EmptyStr, defaultConfig, FALSE, now)
    /\ overtimeBalanceInput = EmptyNum
    /\ forceBreakCheckbox = FALSE
    /\ manualInput = FALSE
    /\ config = defaultConfig
    /\ \E r \in {calculateTime(InitialView, startTimeInput, endTimeInput,
                                overtimeBalanceInput, config, forceBreakCheckbox, now)} :
           /\ view = r.view
           /\ calc = r.calc
    /\ countdown = NoCountdown
    /\ armed = "no"
    /\ intervals = {FirstHandle}
    /\ selectors = initialSelectors

NextVariants ==
    \/ \E value \in VariantStarts : StartTimeInput(value)
    \/ \E value \in VariantEnds : EndTimeInput(value)
    \/ \E value \in VariantBalances : OvertimeBalanceInput(value)
    \/ ForceBreakChange
    \/ \E t \in VariantTargets, b \in VariantBreaks : SaveCurrentConfig(t, b)

VariantSpec == InitVariants /\ [][NextVariants]_vars

\* the inputs on which the break is mandatory under every variant: both
\* times given, the start not after the current time, 6 hours or more
\* between start and end, a target of 6 hours or more, a break no longer
\* than the time between start and end and no longer than the target
InCommonDomain ==
    LET start == parseTime(startTimeInput, now)
        parsedEnd == parseTime(endTimeInput, now)
        end == IF parsedEnd[1] <= start[1] THEN parsedEnd[1] + MsPerDay ELSE parsedEnd[1]
        elapsed == end - start[1]
    IN  /\ start # Null /\ parsedEnd # Null
        /\ start[1] <= now
        /\ elapsed >= BreakThresholdHours * MsPerHour
        /\ config.targetHours >= BreakThresholdHours * MsPerHour
        /\ config.breakDuration * MsPerMinute <= elapsed
        /\ config.breakDuration * MsPerMinute <= config.targetHours

\* C30: on the common domain the three variants of calculateTime hand the
\* same working hours, balance of the day, total balance and suggested end
\* time to updateResults
C30_VariantsAgree ==
    InCommonDomain =>
        LET script == calculateTime_ScriptJs(startTimeInput, endTimeInput,
                                             overtimeBalanceInput, config, now)
            part001 == calculateTime_Part001(startTimeInput, endTimeInput,
                                             overtimeBalanceInput, config, now)
        IN  /\ calc.path = "worked"
            /\ script.path = "worked" /\ part001.path = "worked"
            /\ script.results = calc.results
            /\ part001.results = calc.results
\* reached: exactly 6 hours between start and end, a target of 6 hours and a
\* break of 360 minutes, with a prior balance and the override unchecked
C30_Witness ==
    /\ InCommonDomain
    /\ calc.totalMinutes = BreakThresholdHours * 60
    /\ config.targetHours = BreakThresholdHours * MsPerHour
    /\ config.breakDuration = 360
    /\ overtimeBalanceInput # EmptyNum
    /\ ~forceBreakCheckbox

(***************************************************************************)
(* Properties of the intervals                                             *)
(***************************************************************************)
\* the handles a field of the page's objects holds: CountdownManager's
\* intervalId; the calculator of part_000 has no such field
HeldHandles == IF countdown.intervalId # 0 THEN {countdown.intervalId} ELSE {}

\* C20: every interval running on the page can be cancelled, its handle
\* being held in a field a stop operation can clear, and at most one
\* interval runs for the view.
C20_Cancellable ==
    /\ intervals \subseteq HeldHandles
    /\ Cardinality(intervals) <= 1

====
